---- MODULE Spec2Model ----
(***************************************************************************)
(* Block Crawler (src/block_crawler.py): a one-shot batch job that reads   *)
(* the transactions of a block range from an Ethereum JSON-RPC endpoint    *)
(* and stores them in an SQLite table with INSERT OR IGNORE, committing    *)
(* once per block.                                                         *)
(*                                                                         *)
(* Strings are modelled as sequences of one-character strings, so that     *)
(* str.split and int() are computed character by character.                *)
(***************************************************************************)
EXTENDS Integers, Sequences, FiniteSets, TLC

VARIABLES
    pc,            \* position of the process in __main__ / fetch_transactions
    argc,          \* len(sys.argv)
    endpoint_url,  \* sys.argv[1], as its parsed shape
    blocks,        \* sys.argv[3], the block-range expression
    block_range,   \* result of is_valid_blocks_range(blocks)
    printed,       \* number of usage messages printed by the argument loop
    exit_code,     \* exit status of the process, meaningful when pc = "exited"
    fs,            \* what the file system holds at the path sys.argv[2]
    schema_ok,     \* whether schema.sql can be read from the working directory
    chain,         \* the blocks the endpoint serves, fixed once served
    durable,       \* the committed rows of table Transactions
    connected,     \* the answer of w3.is_connected(): unasked, yes, no
    conn,          \* the connection of fetch_transactions: none, open, closed
    pending,       \* the rows the open connection sees (committed or not)
    block_no,      \* loop variable of fetch_transactions
    block,         \* the block returned by the last get_block
    txi,           \* index of the next transaction of block to insert
    \* history of the current process, kept for the properties
    calls,         \* functions __main__ has invoked, in order
    fetched,       \* block numbers requested with get_block, in order
    committed,     \* block numbers whose commit returned, in order
    outcome,       \* how fetch_transactions ended: Completed or Aborted
    reason,        \* the fault that ended it
    inserts,       \* number of INSERT statements executed
    conn_checks,   \* number of is_connected calls
    rpc_calls,     \* number of calls made to the endpoint
    touched,       \* whether the process has opened or created the store path
    fs_before,     \* fs when the process started
    store_before,  \* durable when fetch_transactions was entered
    prev,          \* how the previous process ended, when this one repeats
                   \* its range: the outcome of its fetch_transactions and
                   \* the rows that were durable when it was entered
    report,        \* the lines fetch_transactions has printed, in order
    closes         \* number of conn.close() calls

vars == <<pc, argc, endpoint_url, blocks, block_range, printed, exit_code, fs,
          schema_ok, chain, durable, connected, conn, pending, block_no,
          block, txi, calls, fetched, committed, outcome, reason, inserts, conn_checks,
          rpc_calls, touched, fs_before, store_before, prev, report,
          closes>>

-----------------------------------------------------------------------------
(* Bounds of the model *)

\* longest range expression given to is_valid_blocks_range on its own
MaxExprLen == 4

\* number of the last block of the chain; later blocks are not found
MaxBlock == 1

\* number of transactions the chain holds in all its blocks together
MaxChainTxs == 2

\* usage messages counted before the count stops growing
MaxPrinted == 2

\* a wei amount converted on its own is m * 10^z with m up to MaxMantissa
\* and z up to MaxZeros
MaxMantissa == 30

MaxZeros == 20

-----------------------------------------------------------------------------
(* Characters and strings *)

Digits == <<"0", "1", "2", "3", "4", "5", "6", "7", "8", "9">>

DigitChars == {Digits[i] : i \in 1..Len(Digits)}

DigitValue(c) == (CHOOSE i \in 1..Len(Digits) : Digits[i] = c) - 1

\* str.isspace() on the characters of the model's alphabet
IsSpace(c) == c = " "

\* The characters the range expressions of the model are written with
ExprChars == {"0", "1", "2", "-", "+", " ", "_", "x"}

ExprsOfLen(n) == [1..n -> ExprChars]

Exprs == UNION {ExprsOfLen(n) : n \in 0..MaxExprLen}

\* A variant of the split: str.rsplit('-', 1), which cuts at the last
\* separator only
RSplitOnce(s) ==
    IF \A i \in 1..Len(s) : s[i] # "-"
    THEN <<s>>
    ELSE LET p == CHOOSE i \in 1..Len(s) :
                      s[i] = "-" /\ \A j \in (i + 1)..Len(s) : s[j] # "-"
         IN  <<SubSeq(s, 1, p - 1), SubSeq(s, p + 1, Len(s))>>

\* str.split('-'): the pieces between the separators; an expression without
\* separator is one piece, an empty expression is one empty piece.
RECURSIVE Split(_)
Split(s) ==
    IF \A i \in 1..Len(s) : s[i] # "-"
    THEN <<s>>
    ELSE LET p == CHOOSE i \in 1..Len(s) :
                      s[i] = "-" /\ \A j \in 1..(i - 1) : s[j] # "-"
         IN  <<SubSeq(s, 1, p - 1)>> \o Split(SubSeq(s, p + 1, Len(s)))

\* str.strip(): drop the white space at both ends
RECURSIVE Strip(_)
Strip(s) ==
    IF Len(s) = 0 THEN s
    ELSE IF IsSpace(s[1]) THEN Strip(Tail(s))
    ELSE IF IsSpace(s[Len(s)]) THEN Strip(SubSeq(s, 1, Len(s) - 1))
    ELSE s

\* The value of a string of decimal digits and single underscores
RECURSIVE DigitsValue(_, _)
DigitsValue(s, acc) ==
    IF Len(s) = 0 THEN acc
    ELSE IF s[1] = "_" THEN DigitsValue(Tail(s), acc)
    ELSE DigitsValue(Tail(s), acc * 10 + DigitValue(s[1]))

\* The body of an integer literal: digits, with single underscores allowed
\* between two digits only.
IsDigitBody(s) ==
    /\ Len(s) > 0
    /\ \A i \in 1..Len(s) : s[i] \in DigitChars \cup {"_"}
    /\ s[1] # "_"
    /\ s[Len(s)] # "_"
    /\ \A i \in 1..(Len(s) - 1) : ~(s[i] = "_" /\ s[i + 1] = "_")

\* int(s) of a str in base 10: white space at both ends is ignored, one
\* sign is allowed, the rest is a digit body; anything else raises
\* ValueError (ok = FALSE).
int(s) ==
    LET t    == Strip(s)
        sgn  == Len(t) > 0 /\ t[1] \in {"+", "-"}
        body == IF sgn THEN Tail(t) ELSE t
    IN  IF ~IsDigitBody(body) THEN [ok |-> FALSE, v |-> 0]
        ELSE IF sgn /\ t[1] = "-"
             THEN [ok |-> TRUE, v |-> 0 - DigitsValue(body, 0)]
        ELSE [ok |-> TRUE, v |-> DigitsValue(body, 0)]

None == <<>>

\* the outcome of an unpacking that raised ValueError
Raised == <<>>

\* A variant of the comparison of is_valid_blocks_range that rejects a == b
RangeOrderStrict(start, end) == start < end

\* src/block_crawler.py:147  if start <= end
RangeOrder(start, end) == start <= end

\* src/block_crawler.py:146  start, end = map(int, ...): exactly two pieces,
\* each converted by int(); any other shape raises ValueError.
UnpackTwoInts(parts) ==
    IF Len(parts) # 2 THEN Raised
    ELSE IF ~int(parts[1]).ok \/ ~int(parts[2]).ok THEN Raised
    ELSE <<int(parts[1]).v, int(parts[2]).v>>

\* src/block_crawler.py:145-151
is_valid_blocks_range(expr) ==
    LET pair == UnpackTwoInts(Split(expr))
    IN  IF pair = Raised THEN None
        ELSE IF RangeOrder(pair[1], pair[2]) THEN <<pair[1], pair[2]>>
        ELSE None

-----------------------------------------------------------------------------
(* Validation of the endpoint URL and of the store path *)

\* The URLs given as sys.argv[1], by their scheme and the shape of their
\* host: a domain name, localhost, a dotted IPv4 address, or none of these.
EndpointUrls ==
    { [scheme |-> "http",  host |-> "localhost"],
      [scheme |-> "ws",    host |-> "domain"],
      [scheme |-> "https", host |-> "other"] }

\* src/block_crawler.py:86  ^(?:http|wss|rpc)s?://
SchemeMatches(scheme) ==
    \E base \in {"http", "wss", "rpc"} : scheme = base \/ scheme = base \o "s"

\* src/block_crawler.py:87-89  domain | localhost | IPv4
HostMatches(host) == host \in {"domain", "localhost", "ipv4"}

\* src/block_crawler.py:85-93
is_valid_endpoint(url) == SchemeMatches(url.scheme) /\ HostMatches(url.host)

\* What the path sys.argv[2] can be: nothing yet, a directory, a path that
\* cannot be opened for writing, an empty file, a file that is no SQLite
\* database, a database holding table Transactions.
FsKinds == {"absent", "dir", "denied", "empty", "garbage", "db"}

\* src/block_crawler.py:113-123: the verdict, and what the path holds after
\* the call: open(db_path, 'a') creates the file when it is absent.
is_valid_db_path(f) ==
    IF f = "dir" THEN [ok |-> FALSE, fs |-> f, opened |-> FALSE]
    ELSE IF f = "denied" THEN [ok |-> FALSE, fs |-> f, opened |-> FALSE]
    ELSE IF f = "absent" THEN [ok |-> TRUE, fs |-> "empty", opened |-> TRUE]
    ELSE [ok |-> TRUE, fs |-> f, opened |-> TRUE]

-----------------------------------------------------------------------------
(* Blocks, transactions and rows *)

HexDigits == <<"0", "1", "2", "3", "4", "5", "6", "7", "8", "9",
               "a", "b", "c", "d", "e", "f">>

\* bytes.hex(): two hexadecimal digits per byte
RECURSIVE Hex(_)
Hex(bytes) ==
    IF Len(bytes) = 0 THEN ""
    ELSE HexDigits[(bytes[1] \div 16) + 1] \o HexDigits[(bytes[1] % 16) + 1]
         \o Hex(Tail(bytes))

\* str() of a natural number, as its characters
RECURSIVE NatStr(_)
NatStr(n) ==
    IF n < 10 THEN <<Digits[n + 1]>>
    ELSE NatStr(n \div 10) \o <<Digits[(n % 10) + 1]>>

RECURSIVE Zeros(_)
Zeros(n) == IF n <= 0 THEN <<>> ELSE <<"0">> \o Zeros(n - 1)

RECURSIVE Pow10(_)
Pow10(n) == IF n <= 0 THEN 1 ELSE 10 * Pow10(n - 1)

RECURSIVE NumDigits(_)
NumDigits(n) == IF n < 10 THEN 1 ELSE 1 + NumDigits(n \div 10)

\* the number of decimal places of the unit 'ether': 1 ether = 10^18 wei
EtherDecimals == 18

\* A wei amount m * 10^z, with m not a multiple of 10 unless it is 0
Wei(m, z) == [m |-> m, z |-> z]

\* A variant of the conversion that keeps nine decimal places
FromWeiNinePlaces(value) ==
    IF value.m = 0 THEN [coef |-> 0, exp |-> 0]
    ELSE IF value.z >= EtherDecimals
         THEN [coef |-> value.m * Pow10(value.z - EtherDecimals), exp |-> 0]
    ELSE IF value.z - EtherDecimals < -9
         THEN [coef |-> value.m \div Pow10(EtherDecimals - 9 - value.z),
               exp  |-> -9]
    ELSE [coef |-> value.m, exp |-> value.z - EtherDecimals]

\* w3.from_wei(value, 'ether'): 0 stays the integer 0; any other amount is
\* divided exactly by 10^18 as a Decimal, whose exponent is raised towards 0
\* while the coefficient ends in a zero.
from_wei(value) ==
    IF value.m = 0 THEN [coef |-> 0, exp |-> 0]
    ELSE IF value.z >= EtherDecimals
         THEN [coef |-> value.m * Pow10(value.z - EtherDecimals), exp |-> 0]
    ELSE [coef |-> value.m, exp |-> value.z - EtherDecimals]

\* str() of a non-negative Decimal coef * 10^exp with exp <= 0: positional
\* notation when more than -6 digits stand left of the point, scientific
\* notation otherwise.
DecimalStr(d) ==
    LET n          == NumDigits(d.coef)
        leftdigits == d.exp + n
        sci        == ~(d.exp <= 0 /\ leftdigits > -6)
        dotplace   == IF sci THEN 1 ELSE leftdigits
        low        == d.coef % Pow10(n - dotplace)
        mantissa   ==
            IF dotplace <= 0
            THEN <<"0", ".">> \o Zeros(0 - dotplace) \o NatStr(d.coef)
            ELSE IF dotplace >= n THEN NatStr(d.coef)
            ELSE NatStr(d.coef \div Pow10(n - dotplace)) \o <<".">>
                 \o Zeros(n - dotplace - NumDigits(low)) \o NatStr(low)
    IN  IF leftdigits = dotplace THEN mantissa
        ELSE mantissa \o <<"E", "-">> \o NatStr(dotplace - leftdigits)

\* The transaction hashes of the model, as byte strings
Hashes == {<<10>>, <<171>>}

\* A transaction's value is part of what its hash digests
ValueOf(hash) == IF hash = <<10>> THEN Wei(15, 17) ELSE Wei(0, 0)

\* The hashes whose transaction the endpoint may serve with a blockNumber
\* that is not the number of the containing block
Misreported == {<<171>>}

\* The transactions the endpoint may list in block n
TxPool(n) ==
    { [hash |-> h, blockNumber |-> n, value |-> ValueOf(h)] : h \in Hashes }
    \cup { [hash |-> h, blockNumber |-> n + 1, value |-> ValueOf(h)] :
               h \in Misreported }

TxLists(n, most) == UNION {[1..k -> TxPool(n)] : k \in 0..most}

\* the timestamp of block n, growing with n
TimestampOf(n) == 1000 + 12 * n

Unknown == [number |-> -1, timestamp |-> 0, transactions |-> <<>>]

ChainTxs(c) ==
    LET RECURSIVE Sum(_)
        Sum(n) == IF n < 0 THEN 0 ELSE Len(c[n].transactions) + Sum(n - 1)
    IN  Sum(MaxBlock)

\* A variant of the row that trusts the containing block for blockNumber
RecordFromBlock(b, tx) ==
    [hash           |-> Hex(tx.hash),
     blockNumber    |-> b.number,
     valueEther     |-> DecimalStr(from_wei(tx.value)),
     blockTimestamp |-> b.timestamp]

\* src/block_crawler.py:60  the parameters of the INSERT
Record(b, tx) ==
    [hash           |-> Hex(tx.hash),
     blockNumber    |-> tx.blockNumber,
     valueEther     |-> DecimalStr(from_wei(tx.value)),
     blockTimestamp |-> b.timestamp]

\* src/block_crawler.py:57-60: what the loop reports about a row whose
\* blockNumber differs from the block's number: the loop compares the two
\* nowhere and prints nothing about them.
MismatchReported(row) == FALSE

\* The key of table Transactions (schema.sql): hash
PrimaryKey(row) == row.hash

\* A table is the sequence of its rows, in the order they were inserted.
Rows(table) == {table[i] : i \in 1..Len(table)}

Keys(table) == {PrimaryKey(table[i]) : i \in 1..Len(table)}

\* A variant of the statement: INSERT OR REPLACE
InsertOrReplace(table, row) ==
    Append(SelectSeq(table, LAMBDA r : PrimaryKey(r) # PrimaryKey(row)), row)

\* A variant of the statement: an insert that never looks at the key
InsertAlways(table, row) == Append(table, row)

\* src/block_crawler.py:59  INSERT OR IGNORE INTO Transactions: a row whose
\* key is in the table already is dropped without error.
InsertOrIgnore(table, row) ==
    IF PrimaryKey(row) \in Keys(table) THEN table ELSE Append(table, row)

-----------------------------------------------------------------------------
(* The process: __main__ and the functions it calls *)

\* The range expressions given as sys.argv[3]
ArgExprs ==
    { e \in ExprsOfLen(3) :
          e[1] \in {"0", "1"} /\ e[2] = "-" /\ e[3] \in {"0", "1", "2", "x"} }

ArgCounts == {3, 4}

NoRun == [outcome |-> "none", before |-> <<>>]

start == block_range[1]

end == block_range[2]

\* The state of a process that has just been started
Fresh ==
    /\ block_range = None
    /\ printed = 0
    /\ exit_code = 0
    /\ connected = "unasked"
    /\ conn = "none"
    /\ pending = <<>>
    /\ block_no = 0
    /\ block = Unknown
    /\ txi = 0
    /\ calls = <<>>
    /\ fetched = <<>>
    /\ committed = <<>>
    /\ outcome = "none"
    /\ reason = "none"
    /\ inserts = 0
    /\ conn_checks = 0
    /\ rpc_calls = 0
    /\ touched = FALSE
    /\ report = <<>>
    /\ closes = 0

Init ==
    /\ pc = "argcheck"
    /\ Fresh
    /\ argc \in ArgCounts
    /\ endpoint_url \in EndpointUrls
    /\ blocks \in ArgExprs
    /\ fs \in {"absent", "dir", "denied", "garbage"}
    /\ schema_ok \in BOOLEAN
    /\ chain = [n \in 0..MaxBlock |-> Unknown]
    /\ durable = <<>>
    /\ fs_before = fs
    /\ store_before = <<>>
    /\ prev = NoRun

env == <<argc, endpoint_url, blocks, schema_ok, chain, fs_before, prev>>

store == <<durable, connected, conn, pending, closes>>

loop == <<block_no, block, txi>>

hist == <<fetched, committed, outcome, reason, inserts, conn_checks,
          store_before, report>>

\* sys.exit(code), or the interpreter ending after an uncaught exception
\* (code 1) or after the last statement (code 0)
Exit(code) == pc' = "exited" /\ exit_code' = code

\* A variant of the exit of a failed validation, with status 0
RejectInputQuietly == Exit(0)

\* src/block_crawler.py:167, 171, 176  sys.exit(1)
RejectInput == Exit(1)

\* src/block_crawler.py:157-159
ArgsGiven ==
    /\ pc = "argcheck"
    /\ argc = 4
    /\ pc' = "v_endpoint"
    /\ UNCHANGED <<exit_code, block_range, printed, fs, touched, calls,
                   rpc_calls, env, store, loop, hist>>

\* src/block_crawler.py:156-160: the test fails and the else branch is
\* entered
ArgsMissing ==
    /\ pc = "argcheck"
    /\ argc # 4
    /\ pc' = "usage"
    /\ UNCHANGED <<exit_code, block_range, printed, fs, touched, calls,
                   rpc_calls, env, store, loop, hist>>

\* src/block_crawler.py:161-162 and 156: the usage is printed and the loop
\* tests again
PrintUsage ==
    /\ pc = "usage"
    /\ printed' = IF printed < MaxPrinted THEN printed + 1 ELSE printed
    /\ pc' = "argcheck"
    /\ UNCHANGED <<exit_code, block_range, fs, touched, calls, rpc_calls,
                   env, store, loop, hist>>

\* src/block_crawler.py:165-167
ValidateEndpoint ==
    /\ pc = "v_endpoint"
    /\ IF is_valid_endpoint(endpoint_url)
       THEN pc' = "v_dbpath" /\ UNCHANGED exit_code
       ELSE RejectInput
    /\ UNCHANGED <<block_range, printed, fs, touched, calls, rpc_calls, env,
                   store, loop, hist>>

\* src/block_crawler.py:169-171
ValidateDbPath ==
    /\ pc = "v_dbpath"
    /\ LET r == is_valid_db_path(fs)
       IN  /\ fs' = r.fs
           /\ touched' = (touched \/ r.opened)
           /\ IF r.ok THEN pc' = "v_range" /\ UNCHANGED exit_code
              ELSE RejectInput
    /\ UNCHANGED <<block_range, printed, calls, rpc_calls, env, store, loop,
                   hist>>

\* src/block_crawler.py:173-178
ValidateRange ==
    /\ pc = "v_range"
    /\ block_range' = is_valid_blocks_range(blocks)
    /\ IF block_range' = None THEN RejectInput
       ELSE pc' = "init_db" /\ UNCHANGED exit_code
    /\ UNCHANGED <<printed, fs, touched, calls, rpc_calls, env, store, loop,
                   hist>>

\* schema.sql: creates table Transactions if the store does not hold it,
\* and leaves the rows of an existing table alone.
ExecuteSchema(f) == "db"

\* src/block_crawler.py:7-26 and 180: the schema is executed on the store; an
\* unreadable schema.sql or a file that is no database raises, and nothing
\* in __main__ catches it.
InitializeDb ==
    /\ pc = "init_db"
    /\ calls' = Append(calls, "initialize_db")
    /\ touched' = TRUE
    /\ IF schema_ok /\ fs # "garbage"
       THEN fs' = ExecuteSchema(fs) /\ pc' = "ft_connected"
            /\ UNCHANGED exit_code
       ELSE UNCHANGED fs /\ Exit(1)
    /\ UNCHANGED <<block_range, printed, rpc_calls, env, store, loop, hist>>

\* The reasons fetch_transactions stops before the end of the range
Faults == {"EndpointUnreachable", "ConnectError", "FetchFailure",
           "StoreWriteError"}

\* A variant of the fault handling without a finally clause
ExceptLeaves(fault) ==
    /\ outcome' = "Aborted"
    /\ reason' = fault
    /\ report' = Append(report, <<"Error occurred", fault>>)
    /\ Exit(0)

\* A variant of the fault handling that tries the same block again
ExceptRetry(fault) ==
    /\ outcome' = "Aborted"
    /\ reason' = fault
    /\ report' = Append(report, <<"Error occurred", fault>>)
    /\ pc' = "get_block"

\* A variant of the message of the except clause that leaves the fault out
ErrorUnnamed(fault) == <<"Error occurred", "none">>

\* src/block_crawler.py:64  print(f"Error occurred: {e}")
ErrorMessage(fault) == <<"Error occurred", fault>>

\* The except clause (src/block_crawler.py:63-64): the fault is printed and
\* control passes to the finally clause.
Except(fault) ==
    /\ outcome' = "Aborted"
    /\ reason' = fault
    /\ report' = Append(report, ErrorMessage(fault))
    /\ pc' = "finally"

\* A variant of the connectivity test that goes on whatever the answer
IgnoreConnected(answer) ==
    /\ pc' = "connect_db"
    /\ UNCHANGED <<exit_code, outcome, reason, report>>

\* src/block_crawler.py:46-48
IfNotConnected(answer) ==
    IF answer = "yes"
    THEN pc' = "connect_db" /\ UNCHANGED <<exit_code, outcome, reason, report>>
    ELSE /\ outcome' = "Aborted"
         /\ reason' = "EndpointUnreachable"
         /\ report' = Append(report, <<"Ethereum network cannot be reached">>)
         /\ Exit(0)

\* src/block_crawler.py:181 and 45-48: fetch_transactions is entered and
\* asks the endpoint whether it is connected.
CheckConnected ==
    /\ pc = "ft_connected"
    /\ calls' = Append(calls, "fetch_transactions")
    /\ store_before' = durable
    /\ conn_checks' = conn_checks + 1
    /\ rpc_calls' = rpc_calls + 1
    /\ \E answer \in {"yes", "no"} :
           connected' = answer /\ IfNotConnected(answer)
    /\ UNCHANGED <<block_range, printed, fs, touched, env, durable, conn,
                   pending, closes, loop, fetched, committed, inserts>>

\* src/block_crawler.py:50-51 and the start of the for loop (54); a
\* connection that cannot be opened raises outside the try statement.
ConnectDb ==
    /\ pc = "connect_db"
    /\ \/ /\ conn' = "open"
          /\ pending' = durable
          /\ block_no' = start
          /\ pc' = "loop"
          /\ UNCHANGED <<exit_code, outcome, reason>>
       \/ /\ outcome' = "Aborted"
          /\ reason' = "ConnectError"
          /\ Exit(1)
          /\ UNCHANGED <<conn, pending, block_no>>
    /\ UNCHANGED <<block_range, printed, fs, touched, calls, rpc_calls, env,
                   durable, connected, closes, block, txi, fetched,
                   committed, inserts, conn_checks, store_before, report>>

\* A variant of the loop bound: range(start, end)
LastBlockExclusive(n) == n < end

\* src/block_crawler.py:54  for block_no in range(start, end + 1)
InRange(n) == n <= end

\* src/block_crawler.py:54-55: the next block number, which is announced,
\* or the end of the loop
LoopNext ==
    /\ pc = "loop"
    /\ IF InRange(block_no)
       THEN /\ report' = Append(report, <<"Parsing block", block_no>>)
            /\ pc' = "get_block"
            /\ UNCHANGED outcome
       ELSE pc' = "finally" /\ outcome' = "Completed" /\ UNCHANGED report
    /\ UNCHANGED <<exit_code, block_range, printed, fs, touched, calls,
                   rpc_calls, env, store, loop, fetched, committed, reason,
                   inserts, conn_checks, store_before>>

\* src/block_crawler.py:55-56: the block is served, with the transactions
\* the chain holds for it, or the call raises (no such block, time-out,
\* RPC error).
GetBlock ==
    /\ pc = "get_block"
    /\ fetched' = Append(fetched, block_no)
    /\ rpc_calls' = rpc_calls + 1
    /\ \/ /\ block_no \in 0..MaxBlock
          /\ IF chain[block_no] # Unknown
             THEN UNCHANGED chain
             ELSE \E txs \in TxLists(block_no, MaxChainTxs - ChainTxs(chain)) :
                      chain' = [chain EXCEPT ![block_no] =
                                   [number       |-> block_no,
                                    timestamp    |-> TimestampOf(block_no),
                                    transactions |-> txs]]
          /\ block' = chain'[block_no]
          /\ txi' = 1
          /\ pc' = "insert"
          /\ UNCHANGED <<outcome, reason, report>>
       \/ /\ Except("FetchFailure")
          /\ UNCHANGED <<chain, block, txi>>
    /\ UNCHANGED <<exit_code, block_range, printed, fs, touched, calls, argc,
                   endpoint_url, blocks, schema_ok, fs_before, prev, store,
                   block_no, committed, inserts, conn_checks, store_before>>

\* A variant of the connection that is in autocommit mode
AutoCommit(rows) == rows

\* src/block_crawler.py:50: sqlite3.connect with its default isolation
\* level: an INSERT opens a transaction and makes nothing durable.
DurableAfterInsert(rows) == durable

\* src/block_crawler.py:57-60: one INSERT per transaction of the block, in
\* the block's order; the statement may fail with a store error.
InsertTx ==
    /\ pc = "insert"
    /\ txi <= Len(block.transactions)
    /\ inserts' = inserts + 1
    /\ \/ /\ pending' = InsertOrIgnore(pending,
                                       Record(block, block.transactions[txi]))
          /\ durable' = DurableAfterInsert(pending')
          /\ txi' = txi + 1
          /\ UNCHANGED <<pc, outcome, reason, report>>
       \/ /\ Except("StoreWriteError")
          /\ UNCHANGED <<pending, durable, txi>>
    /\ UNCHANGED <<exit_code, block_range, printed, fs, touched, calls,
                   rpc_calls, env, connected, conn, closes, block_no, block,
                   fetched, committed, conn_checks, store_before>>

\* A variant of the end of the inner loop: the commit follows the first
\* insert
FirstInserted == txi > 1 \/ Len(block.transactions) = 0

\* src/block_crawler.py:57: the inner loop has gone through the block's
\* transactions
BlockInserted == txi > Len(block.transactions)

\* src/block_crawler.py:57: the block has no further transaction
InsertsDone ==
    /\ pc = "insert"
    /\ BlockInserted
    /\ pc' = "commit"
    /\ UNCHANGED <<exit_code, block_range, printed, fs, touched, calls,
                   rpc_calls, env, store, loop, hist>>

\* A variant of the commit that makes nothing durable
CommitNothing(rows) == durable

\* src/block_crawler.py:61  conn.commit(): the rows the connection sees
\* become the durable rows
CommitRows(rows) == rows

\* src/block_crawler.py:61-62: the commit makes the connection's rows
\* durable and the loop goes on with the next number; a commit that fails
\* leaves the durable rows as they were.
Commit ==
    /\ pc = "commit"
    /\ \/ /\ durable' = CommitRows(pending)
          /\ committed' = Append(committed, block_no)
          /\ block_no' = block_no + 1
          /\ report' = Append(report, <<"persisted", block_no,
                                         Len(block.transactions)>>)
          /\ pc' = "loop"
          /\ UNCHANGED <<outcome, reason>>
       \/ /\ Except("StoreWriteError")
          /\ UNCHANGED <<durable, committed, block_no>>
    /\ UNCHANGED <<exit_code, block_range, printed, fs, touched, calls,
                   rpc_calls, env, connected, conn, pending, closes, block,
                   txi, fetched, inserts, conn_checks, store_before>>

\* A variant of the end of the process whose status tells the outcome
StatusOfOutcome(o) == IF o = "Completed" THEN 0 ELSE 1

\* src/block_crawler.py:181: fetch_transactions returns None whatever its
\* outcome was, and __main__ ends after it: the status is 0.
ExitStatus(o) == 0

\* A variant of the close that commits what is pending
CloseCommitting(rows) == rows

\* sqlite3: closing a connection does not commit; the rows that were not
\* committed are gone.
DurableAfterClose(rows) == durable

\* src/block_crawler.py:65-66, and the end of __main__
Finally ==
    /\ pc = "finally"
    /\ conn' = "closed"
    /\ closes' = closes + 1
    /\ durable' = DurableAfterClose(pending)
    /\ pending' = <<>>
    /\ Exit(ExitStatus(outcome))
    /\ UNCHANGED <<block_range, printed, fs, touched, calls, rpc_calls, env,
                   connected, loop, hist>>

\* The operator starts the program again, with the same or another range,
\* on the same endpoint and store.
Restart ==
    /\ pc = "exited"
    /\ argc = 4
    /\ \E e \in ArgExprs : blocks' = e
    /\ prev' = IF outcome # "none" /\ blocks' = blocks
               THEN [outcome |-> outcome, before |-> store_before]
               ELSE NoRun
    /\ fs_before' = fs
    /\ pc' = "argcheck"
    /\ block_range' = None
    /\ printed' = 0
    /\ exit_code' = 0
    /\ connected' = "unasked"
    /\ conn' = "none"
    /\ pending' = <<>>
    /\ block_no' = 0
    /\ block' = Unknown
    /\ txi' = 0
    /\ calls' = <<>>
    /\ fetched' = <<>>
    /\ committed' = <<>>
    /\ outcome' = "none"
    /\ reason' = "none"
    /\ inserts' = 0
    /\ conn_checks' = 0
    /\ rpc_calls' = 0
    /\ touched' = FALSE
    /\ report' = <<>>
    /\ closes' = 0
    /\ UNCHANGED <<argc, endpoint_url, schema_ok, chain, fs, durable,
                   store_before>>

Next ==
    \/ ArgsGiven
    \/ ArgsMissing
    \/ PrintUsage
    \/ ValidateEndpoint
    \/ ValidateDbPath
    \/ ValidateRange
    \/ InitializeDb
    \/ CheckConnected
    \/ ConnectDb
    \/ LoopNext
    \/ GetBlock
    \/ InsertTx
    \/ InsertsDone
    \/ Commit
    \/ Finally
    \/ Restart

Spec == Init /\ [][Next]_vars

\* One process, from its start to its exit, every step of which is taken
\* in the end: the program is sequential, and each call it makes returns or
\* raises.
NextRun ==
    \/ ArgsGiven
    \/ ArgsMissing
    \/ PrintUsage
    \/ ValidateEndpoint
    \/ ValidateDbPath
    \/ ValidateRange
    \/ InitializeDb
    \/ CheckConnected
    \/ ConnectDb
    \/ LoopNext
    \/ GetBlock
    \/ InsertTx
    \/ InsertsDone
    \/ Commit
    \/ Finally

RunSpec == Init /\ [][NextRun]_vars /\ WF_vars(NextRun)

-----------------------------------------------------------------------------
(* is_valid_blocks_range on its own, applied to every expression of at most
   MaxExprLen characters *)

ParseInit ==
    /\ pc = "parse"
    /\ Fresh
    /\ argc = 4
    /\ endpoint_url \in {u \in EndpointUrls : is_valid_endpoint(u)}
    /\ blocks \in Exprs
    /\ fs = "absent"
    /\ schema_ok = TRUE
    /\ chain = [n \in 0..MaxBlock |-> Unknown]
    /\ durable = <<>>
    /\ fs_before = fs
    /\ store_before = <<>>
    /\ prev = NoRun

\* src/block_crawler.py:173  block_range = is_valid_blocks_range(blocks)
ParseRange ==
    /\ pc = "parse"
    /\ block_range' = is_valid_blocks_range(blocks)
    /\ pc' = "parsed"
    /\ UNCHANGED <<exit_code, printed, fs, touched, calls, rpc_calls, env,
                   store, loop, hist>>

ParseNext == ParseRange

ParseSpec == ParseInit /\ [][ParseNext]_vars

-----------------------------------------------------------------------------
(* The row of one transaction on its own, for every wei amount m * 10^z
   within MaxMantissa and MaxZeros *)

WeiValues ==
    {Wei(0, 0)} \cup
    {Wei(m, z) : m \in {k \in 1..MaxMantissa : k % 10 # 0}, z \in 0..MaxZeros}

ConvInit ==
    /\ pc = "convert"
    /\ block_range = <<0, 0>>
    /\ printed = 0
    /\ exit_code = 0
    /\ connected = "yes"
    /\ conn = "open"
    /\ pending = <<>>
    /\ block_no = 0
    /\ txi = 1
    /\ calls = <<"initialize_db", "fetch_transactions">>
    /\ fetched = <<0>>
    /\ committed = <<>>
    /\ outcome = "none"
    /\ reason = "none"
    /\ inserts = 0
    /\ conn_checks = 1
    /\ rpc_calls = 2
    /\ touched = TRUE
    /\ report = <<<<"Parsing block", 0>>>>
    /\ closes = 0
    /\ argc = 4
    /\ endpoint_url \in {u \in EndpointUrls : is_valid_endpoint(u)}
    /\ blocks = <<"0", "-", "0">>
    /\ fs = "db"
    /\ schema_ok = TRUE
    /\ chain = [n \in 0..MaxBlock |-> Unknown]
    /\ durable = <<>>
    /\ fs_before = fs
    /\ store_before = <<>>
    /\ prev = NoRun
    /\ \E w \in WeiValues :
           block = [number       |-> 0,
                    timestamp    |-> TimestampOf(0),
                    transactions |-> <<[hash        |-> <<10>>,
                                        blockNumber |-> 0,
                                        value       |-> w]>>]

\* src/block_crawler.py:59-60: the INSERT of the block's transaction
ConvInsert ==
    /\ pc = "convert"
    /\ pending' = InsertOrIgnore(pending, Record(block, block.transactions[1]))
    /\ pc' = "converted"
    /\ UNCHANGED <<exit_code, block_range, printed, fs, touched, calls,
                   rpc_calls, env, durable, connected, conn, closes, loop,
                   hist>>

ConvNext == ConvInsert

ConvSpec == ConvInit /\ [][ConvNext]_vars

-----------------------------------------------------------------------------
(* Properties *)

\* the positions of the separator in an expression
Dashes(expr) == {i \in 1..Len(expr) : expr[i] = "-"}

IsDigitString(t) == Len(t) > 0 /\ \A i \in 1..Len(t) : t[i] \in DigitChars

\* the number a string of decimal digits denotes
PlainValue(t) ==
    LET RECURSIVE Sum(_)
        Sum(i) == IF i > Len(t) THEN 0
                  ELSE DigitValue(t[i]) * Pow10(Len(t) - i) + Sum(i + 1)
    IN  Sum(1)

\* C10: is_valid_blocks_range returns (a, b) when the expression is two
\* integer tokens a and b joined by a single '-' with a <= b, where a token
\* of decimal digits denotes its decimal value; it returns None when the
\* expression does not hold exactly one '-', when a token is not accepted by
\* int(), or when a > b; the call changes nothing but its result.
C10_RangeParsing ==
    pc = "parsed" =>
        /\ IF Cardinality(Dashes(blocks)) # 1
           THEN block_range = None
           ELSE LET p     == CHOOSE i \in Dashes(blocks) : TRUE
                    left  == SubSeq(blocks, 1, p - 1)
                    right == SubSeq(blocks, p + 1, Len(blocks))
                    a     == int(left)
                    b     == int(right)
                IN  /\ (~a.ok \/ ~b.ok) => block_range = None
                    /\ (a.ok /\ b.ok /\ a.v > b.v) => block_range = None
                    /\ (a.ok /\ b.ok /\ a.v <= b.v) =>
                           block_range = <<a.v, b.v>>
                    /\ IsDigitString(left) => a.ok /\ a.v = PlainValue(left)
                    /\ IsDigitString(right) => b.ok /\ b.v = PlainValue(right)
        /\ fs = fs_before /\ ~touched /\ rpc_calls = 0
           /\ durable = <<>>

\* C10 witness: an expression whose start equals its end was parsed.
C10_Witness ==
    /\ pc = "parsed"
    /\ blocks = <<"2", "-", "2">>
    /\ block_range = <<2, 2>>

-----------------------------------------------------------------------------
(* Properties of the ingestion *)

\* the numbers lo, lo + 1, ... hi as a sequence
Upto(lo, hi) == [i \in 1..(IF hi >= lo THEN hi - lo + 1 ELSE 0) |-> lo + i - 1]

\* the rows of the transactions of a served block, in the block's order
BlockRecords(n) ==
    [i \in 1..Len(chain[n].transactions) |->
        Record(chain[n], chain[n].transactions[i])]

RECURSIVE RangeRecords(_, _)
RangeRecords(lo, hi) ==
    IF hi < lo THEN <<>>
    ELSE RangeRecords(lo, hi - 1) \o BlockRecords(hi)

\* The table one run without fault leaves, from table S, after the rows
\* recs in this order: the first row of each hash that S does not hold.
RECURSIVE FirstWrites(_, _)
FirstWrites(S, recs) ==
    IF recs = <<>> THEN S
    ELSE FirstWrites(IF \E i \in 1..Len(S) : S[i].hash = Head(recs).hash
                     THEN S
                     ELSE S \o <<Head(recs)>>,
                     Tail(recs))

OneRowPerHash(table) ==
    \A i, j \in 1..Len(table) : table[i].hash = table[j].hash => i = j

LoopFault == outcome = "Aborted" /\ reason \in {"FetchFailure", "StoreWriteError"}

\* C1: a run that started on an empty store, committed blocks start..k and
\* failed on block k+1 (its fetch, one of its inserts or its commit) leaves
\* in the store a row for every transaction of blocks start..k, only rows
\* of these blocks, and no row of block k+1 or of a later block.
C1_PartialDurability ==
    (pc = "exited" /\ LoopFault /\ store_before = <<>>) =>
        LET k == start + Len(committed) - 1
        IN  /\ committed = Upto(start, k)
            /\ block_no = k + 1
            /\ \A r \in Rows(RangeRecords(start, k)) : r.hash \in Keys(durable)
            /\ Rows(durable) \subseteq Rows(RangeRecords(start, k))
            /\ \A r \in Rows(durable) : \A n \in (k + 1)..(end + 1) :
                   r.blockTimestamp # TimestampOf(n)

\* C1 witness: block 0 was committed with a row, an insert of block 1 was
\* executed, the commit of block 1 failed, and the row of block 1 is not in
\* the store.
C1_Witness ==
    /\ pc = "exited"
    /\ LoopFault
    /\ reason = "StoreWriteError"
    /\ store_before = <<>>
    /\ committed = <<0>>
    /\ durable # <<>>
    /\ txi > 1
    /\ \E r \in Rows(BlockRecords(1)) : r.hash \notin Keys(durable)

\* C2: in every state the table holds one row per hash, before and after a
\* commit; every transaction of a block this run committed has its row; and
\* a run that completes a range the previous run completed leaves the store
\* as that run left it.
C2_Idempotence ==
    /\ OneRowPerHash(durable)
    /\ OneRowPerHash(pending)
    /\ \A i \in 1..Len(committed) :
           \A r \in Rows(BlockRecords(committed[i])) : r.hash \in Keys(durable)
    /\ (pc = "exited" /\ outcome = "Completed" /\ prev.outcome = "Completed")
           => durable = store_before

\* C2 witness: the range was completed twice in a row, one of its blocks
\* lists the same transaction twice, and the store holds its single row.
C2_Witness ==
    /\ pc = "exited"
    /\ outcome = "Completed"
    /\ prev.outcome = "Completed"
    /\ prev.before = <<>>
    /\ Len(durable) = 1
    /\ \E n \in start..end :
           /\ Len(chain[n].transactions) = 2
           /\ chain[n].transactions[1] = chain[n].transactions[2]

\* an insert of the next transaction of the block that did not fail
InsertReturned == pc = "insert" /\ pc' = "insert" /\ txi' = txi + 1

\* C3: a durable row stays in the store, at its place and with the fields
\* first written, through every step (inserts, commits, aborts, further
\* runs); an insert of a row whose hash the table holds returns without
\* error and changes no row.
C3_FirstWriteWins ==
    [][/\ Len(durable') >= Len(durable)
       /\ SubSeq(durable', 1, Len(durable)) = durable
       /\ (InsertReturned
           /\ Record(block, block.transactions[txi]).hash \in Keys(pending))
              => pending' = pending]_vars

\* C3 witness: an insert of a row with the hash of a durable row, but other
\* fields, has returned, and the durable row is the one the connection sees.
C3_Witness ==
    /\ pc = "insert"
    /\ txi > 1
    /\ LET rec == Record(block, block.transactions[txi - 1])
       IN  \E r \in Rows(durable) :
               /\ r.hash = rec.hash
               /\ r # rec
               /\ r \in Rows(pending)
               /\ rec \notin Rows(pending)

\* C4: when the previous run of the range was aborted and this run of the
\* same range completes, the store equals the store that one run without
\* fault leaves from the store the aborted run started on; its hashes are
\* those of that store and of blocks start..end, each in one row.
C4_RecoveryByRerun ==
    (pc = "exited" /\ outcome = "Completed" /\ prev.outcome = "Aborted") =>
        /\ durable = FirstWrites(prev.before, RangeRecords(start, end))
        /\ Keys(durable) =
               Keys(prev.before) \cup Keys(RangeRecords(start, end))
        /\ OneRowPerHash(durable)

\* C4 witness: the aborted run committed a block with a row, and the run
\* after it added a row of a later block.
C4_Witness ==
    /\ pc = "exited"
    /\ outcome = "Completed"
    /\ prev.outcome = "Aborted"
    /\ prev.before = <<>>
    /\ store_before # <<>>
    /\ Len(durable) > Len(store_before)
    /\ Len(committed) = 2

\* C5: is_connected is asked once at most, before the loop; after the
\* answer "not connected" the process has exited with no block fetched, no
\* row inserted, no commit, no connection to the store, and the store as it
\* was when fetch_transactions was entered.
C5_ConnectivityPrecondition ==
    /\ conn_checks <= 1
    /\ (fetched # <<>> \/ conn # "none") => conn_checks = 1
    /\ connected = "no" =>
           /\ pc = "exited"
           /\ fetched = <<>>
           /\ inserts = 0
           /\ committed = <<>>
           /\ conn = "none"
           /\ pending = <<>>
           /\ durable = store_before
           /\ rpc_calls = 1

\* C5 witness: the endpoint was not connected when a process found rows in
\* the store.
C5_Witness ==
    /\ connected = "no"
    /\ pc = "exited"
    /\ durable # <<>>

-----------------------------------------------------------------------------
(* Properties of __main__ *)

\* one of the three validators rejects the input this process was given
InputRejected ==
    \/ ~is_valid_endpoint(endpoint_url)
    \/ ~is_valid_db_path(fs_before).ok
    \/ is_valid_blocks_range(blocks) = None

\* C6: a process that exits because an input is invalid has made no call to
\* the endpoint and has not created, opened or written the store: the path
\* holds what it held when the process started.
C6_InputErrorsBeforeIO ==
    (pc = "exited" /\ argc = 4 /\ InputRejected) =>
        /\ exit_code = 1
        /\ rpc_calls = 0
        /\ ~touched
        /\ fs = fs_before

\* C7 as stated: with three arguments the exit status is 1 exactly when a
\* validator rejects, then no function is invoked, and otherwise
\* initialize_db is invoked before fetch_transactions.
C7_ExitOneIffRejected ==
    (pc = "exited" /\ argc = 4) =>
        /\ exit_code = 1 <=> InputRejected
        /\ InputRejected => calls = <<>>
        /\ ~InputRejected =>
               calls \in {<<"initialize_db">>,
                          <<"initialize_db", "fetch_transactions">>}

\* C7 as amended: with three arguments, when a validator rejects the exit
\* status is 1 and neither initialize_db nor fetch_transactions is invoked;
\* when all three accept, initialize_db is invoked before
\* fetch_transactions, and the exit status is 1 only if initialize_db
\* raised or the store connection of fetch_transactions could not be
\* opened.
C7_ExitOneWhenRejected ==
    /\ calls \in {<<>>, <<"initialize_db">>,
                  <<"initialize_db", "fetch_transactions">>}
    /\ (pc = "exited" /\ argc = 4) =>
           /\ InputRejected => (exit_code = 1 /\ calls = <<>>)
           /\ ~InputRejected => calls # <<>>
           /\ (exit_code = 1 /\ ~InputRejected) =>
                  \/ calls = <<"initialize_db">>
                  \/ reason = "ConnectError"

\* C7 witness: the endpoint and the store path were accepted, the range
\* was rejected, and the process has exited with status 1.
C7_Witness ==
    /\ pc = "exited"
    /\ argc = 4
    /\ is_valid_endpoint(endpoint_url)
    /\ is_valid_db_path(fs_before).ok
    /\ is_valid_blocks_range(blocks) = None
    /\ exit_code = 1
    /\ calls = <<>>

\* C8: the blocks fetched in a run are start, start + 1, ... in this
\* order, each once; and from the first fault of the run on, no block is
\* fetched, no row is inserted and the durable rows do not change.
C8_VisitingOrder ==
    /\ [](fetched # <<>> =>
              /\ fetched = Upto(start, start + Len(fetched) - 1)
              /\ fetched[Len(fetched)] <= end)
    /\ [][(outcome = "Aborted" /\ outcome' = "Aborted") =>
              /\ fetched' = fetched
              /\ inserts' = inserts
              /\ committed' = committed
              /\ durable' = durable]_vars

\* C8 witness: the second block of a range of three failed after the first
\* was committed, and the process has exited without fetching the third.
C8_Witness ==
    /\ pc = "exited"
    /\ LoopFault
    /\ end - start = 2
    /\ fetched = <<start, start + 1>>
    /\ committed = <<start>>
    /\ durable # <<>>

\* C9: a process that enters fetch_transactions exits in the end; it has
\* then ended in one of Completed and Aborted, for good, after at most
\* end - start + 1 fetches; and it has ended in Completed exactly when each
\* block of start..end was fetched and committed.
C9_TerminalStates ==
    /\ (pc = "ft_connected") ~> (pc = "exited")
    /\ [](outcome \in {"none", "Completed", "Aborted"})
    /\ []((pc = "exited" /\ Len(calls) = 2) =>
              /\ outcome \in {"Completed", "Aborted"}
              /\ Len(fetched) <= end - start + 1
              /\ outcome = "Completed" <=>
                     (fetched = Upto(start, end) /\ committed = Upto(start, end)))
    /\ [][outcome # "none" => outcome' = outcome]_vars

\* C9 witness: a range of two blocks without transactions was completed
\* and the store has gained no row.
C9_Witness ==
    /\ pc = "exited"
    /\ outcome = "Completed"
    /\ committed = <<0, 1>>
    /\ \A n \in 0..1 : chain[n] # Unknown /\ chain[n].transactions = <<>>
    /\ durable = store_before

-----------------------------------------------------------------------------
(* Properties settled after the first ten *)

\* C11: whatever the expression, a range returned by is_valid_blocks_range
\* has 0 <= start <= end, so that the range __main__ hands to
\* fetch_transactions has no negative start or end.
C11_RangeNonNegative ==
    (pc = "parsed" /\ block_range # None) =>
        /\ 0 <= block_range[1]
        /\ block_range[1] <= block_range[2]

\* C11 witness: an expression that writes a negative start before a
\* greater end was parsed, and it was rejected.
C11_Witness ==
    /\ pc = "parsed"
    /\ blocks = <<"-", "1", "-", "2">>
    /\ block_range = None

\* the place of character c in a string, 0 when it is not there
IndexOf(str, c) ==
    IF \E i \in 1..Len(str) : str[i] = c
    THEN CHOOSE i \in 1..Len(str) : str[i] = c /\ \A j \in 1..(i - 1) : str[j] # c
    ELSE 0

\* The number coef * 10^exp a decimal string denotes: digits, with at most
\* one point, followed or not by E and a signed exponent.
DecimalDenoted(str) ==
    LET e     == IndexOf(str, "E")
        mant  == IF e = 0 THEN str ELSE SubSeq(str, 1, e - 1)
        expo  == IF e = 0 THEN 0
                 ELSE IF str[e + 1] = "-"
                      THEN 0 - PlainValue(SubSeq(str, e + 2, Len(str)))
                 ELSE PlainValue(SubSeq(str, e + 2, Len(str)))
        dot   == IndexOf(mant, ".")
        whole == IF dot = 0 THEN mant ELSE SubSeq(mant, 1, dot - 1)
        frac  == IF dot = 0 THEN <<>> ELSE SubSeq(mant, dot + 1, Len(mant))
    IN  [coef |-> PlainValue(whole \o frac), exp |-> expo - Len(frac)]

IsDecimalString(str) ==
    LET e    == IndexOf(str, "E")
        mant == IF e = 0 THEN str ELSE SubSeq(str, 1, e - 1)
        dot  == IndexOf(mant, ".")
    IN  /\ Len(mant) > 0
        /\ \A i \in 1..Len(mant) : mant[i] \in DigitChars \/ i = dot
        /\ dot # 1 /\ dot # Len(mant)
        /\ e # 0 => /\ Len(str) >= e + 2
                    /\ str[e + 1] \in {"+", "-"}
                    /\ IsDigitString(SubSeq(str, e + 2, Len(str)))

\* coef * 10^exp with the zeros at the end of coef moved into exp
RECURSIVE Normal(_)
Normal(d) ==
    IF d.coef # 0 /\ d.coef % 10 = 0
    THEN Normal([coef |-> d.coef \div 10, exp |-> d.exp + 1])
    ELSE d

\* C12: a stored row whose blockNumber is not the number of the block that
\* held its transaction was reported as an anomaly.
C12_MismatchReported ==
    \A r \in Rows(pending) \cup Rows(durable) :
        \A n \in 0..MaxBlock :
            (r.blockTimestamp = TimestampOf(n) /\ r.blockNumber # n) =>
                MismatchReported(r)

\* C13: the valueEther stored for a transaction of value m * 10^z wei is a
\* decimal string that denotes m * 10^(z - 18) exactly, and 1.5 * 10^18 wei
\* is stored as "1.5".
C13_UnitConversion ==
    pc = "converted" =>
        LET v   == block.transactions[1].value
            str == pending[1].valueEther
            d   == Normal(DecimalDenoted(str))
        IN  /\ IsDecimalString(str)
            /\ v.m = 0 => d.coef = 0
            /\ v.m # 0 => (d.coef = v.m /\ d.exp + EtherDecimals = v.z)
            /\ v = Wei(15, 17) => str = <<"1", ".", "5">>

\* C13 witness: 230 wei, an amount with 17 decimal places of ether, below
\* the threshold of the positional notation, was stored.
C13_Witness ==
    /\ pc = "converted"
    /\ block.transactions[1].value = Wei(23, 1)
    /\ pending[1].valueEther = <<"2", ".", "3", "E", "-", "1", "6">>

\* the last element of a sequence that is not empty
Last(seq) == seq[Len(seq)]

\* C14: durable rows change only by a commit; a commit is issued for the
\* block fetched last, once all its transactions were inserted (none, for a
\* block without transactions), and makes durable what the connection sees;
\* a block is fetched only when every block fetched before it is committed;
\* and the block a run failed on is fetched and not committed.
C14_CommitGranularity ==
    /\ [][durable' # durable => committed' = Append(committed, block_no)]_vars
    /\ [][(committed' # committed /\ pc # "exited") =>
              /\ pc = "commit"
              /\ committed' = Append(committed, block.number)
              /\ block.number = Last(fetched)
              /\ txi = Len(block.transactions) + 1
              /\ inserts' = inserts
              /\ durable' = pending]_vars
    /\ [][(fetched' # fetched /\ pc # "exited") => committed = fetched]_vars
    /\ [](pc = "loop" => committed = fetched)
    /\ [](LoopFault =>
              /\ Len(fetched) = Len(committed) + 1
              /\ committed = SubSeq(fetched, 1, Len(committed)))

\* C14 witness: a block without transactions was committed, and after it a
\* block of two transactions, with two inserts in all.
C14_Witness ==
    /\ pc = "loop"
    /\ committed = <<0, 1>>
    /\ chain[0].transactions = <<>>
    /\ Len(chain[1].transactions) = 2
    /\ inserts = 2

\* C15: in every state from the entry of fetch_transactions on, the durable
\* rows are the rows that were durable at the entry followed by the first
\* writes of blocks start..j, where j is the last block whose commit has
\* returned (start - 1 when there is none).
C15_WholeBlockDurability ==
    (Len(calls) = 2 /\ pc # "connect_db" /\ connected = "yes"
     /\ reason # "ConnectError") =>
        \E j \in (start - 1)..end :
            /\ j = start + Len(committed) - 1
            /\ durable = FirstWrites(store_before, RangeRecords(start, j))

\* C15 witness: block 0 is committed with its row, and the row of block 1 is
\* inserted and not committed.
C15_Witness ==
    /\ pc = "insert"
    /\ committed = <<0>>
    /\ Len(durable) = 1
    /\ txi = 2
    /\ Len(pending) = 2

\* the block numbers of the progress lines of a report, in order
PersistedBlocks(lines) ==
    LET sel == SelectSeq(lines, LAMBDA m : m[1] = "persisted")
    IN  [i \in 1..Len(sel) |-> sel[i][2]]

\* the block number a line carries, if it carries one
NamesBlock(m, n) == m[1] \in {"Parsing block", "persisted"} /\ m[2] = n

C17_ResourceRelease ==
    /\ [](closes <= 1)
    /\ [](pc = "exited" =>
              \/ conn = "closed" /\ closes = 1
              \/ conn = "none" /\ closes = 0)
    /\ []((pc = "exited" /\ (outcome = "Completed" \/ LoopFault)) =>
              conn = "closed")
    /\ [](connected = "no" => conn = "none")
    /\ [](conn = "open" <=>
              pc \in {"loop", "get_block", "insert", "commit", "finally"})
    /\ [][(inserts' > inserts \/ Len(committed') > Len(committed)) =>
              conn = "open"]_vars
    /\ [][(conn = "closed" /\ conn' = "closed") =>
              /\ pending' = pending
              /\ durable' = durable]_vars

\* C17 witness: a commit failed after an insert, and the process has exited
\* with the connection closed.
C17_Witness ==
    /\ pc = "exited"
    /\ reason = "StoreWriteError"
    /\ inserts = 1
    /\ txi = 2
    /\ Len(block.transactions) = 1
    /\ conn = "closed"
    /\ closes = 1

\* C18: a process stops in the end, whatever the number of its arguments.
C18_Termination == <>(pc = "exited")

\* C19: from a fault of the block loop the process goes to the finally
\* clause and to its end only; and a process whose fetch_transactions ended
\* with the range completed, with a fault of the block loop or with an
\* endpoint that is not connected has exited with status 0.
C19_FaultContainment ==
    /\ LoopFault => (pc \in {"finally", "exited"} /\ exit_code = 0)
    /\ (pc = "exited" /\ (outcome = "Completed" \/ LoopFault
                          \/ reason = "EndpointUnreachable")) =>
           (exit_code = 0 /\ Len(calls) = 2)

\* C19 witness: the first fetch of the run failed, and the process has
\* exited with status 0.
C19_Witness ==
    /\ pc = "exited"
    /\ reason = "FetchFailure"
    /\ fetched = <<0>>
    /\ exit_code = 0

====
